---- MODULE Spec2Model ----
(***************************************************************************)
(* Model of comprehensive_fix.py: a command that reads one file, makes     *)
(* sure the UNUSED macro is defined, applies seven regular-expression      *)
(* rewrite rules in order and writes the text back.  Text is a sequence of *)
(* one-character strings; the regular expressions are matched character by *)
(* character with Python's leftmost, greedy, backtracking semantics.       *)
(***************************************************************************)
EXTENDS Integers, Sequences, FiniteSets, TLC

VARIABLES argv, fs, content, pc, idx, stdout, exitcode, runs,
          orig, ropens, wopens, outs, input0

vars == <<argv, fs, content, pc, idx, stdout, exitcode, runs,
          orig, ropens, wopens, outs, input0>>

\* ------------------------------------------------------------------ bounds
MaxLines == 2
MaxRuns == 2

\* ------------------------------------------------------- character classes
\* \s of a Python str pattern, restricted to the characters TLA+ can write
WhiteSpace == {" ", "\t", "\n", "\r", "\f"}

\* \w of a Python str pattern, restricted to ASCII
WordChars == {"a", "b", "c", "d", "e", "f", "g", "h", "i", "j", "k", "l", "m",
              "n", "o", "p", "q", "r", "s", "t", "u", "v", "w", "x", "y", "z",
              "A", "B", "C", "D", "E", "F", "G", "H", "I", "J", "K", "L", "M",
              "N", "O", "P", "Q", "R", "S", "T", "U", "V", "W", "X", "Y", "Z",
              "0", "1", "2", "3", "4", "5", "6", "7", "8", "9", "_"}

\* ------------------------------------------------------ regular expressions
\* A pattern is a sequence of alternatives; an alternative is a sequence of
\* items; an item is one character class with a greedy repetition.
Lit(c) == [cls |-> "lit", ch |-> c, min |-> 1, many |-> FALSE]
Lits(s) == [i \in 1..Len(s) |-> Lit(s[i])]
S1 == [cls |-> "s", ch |-> "", min |-> 1, many |-> TRUE]
S0 == [cls |-> "s", ch |-> "", min |-> 0, many |-> TRUE]
W1 == [cls |-> "w", ch |-> "", min |-> 1, many |-> TRUE]
NSC1 == [cls |-> "nsc", ch |-> "", min |-> 1, many |-> TRUE]

InClass(it, c) ==
    CASE it.cls = "lit" -> c = it.ch
      [] it.cls = "s" -> c \in WhiteSpace
      [] it.cls = "w" -> c \in WordChars
      [] it.cls = "nsc" -> c # ";"
      [] it.cls = "h" -> c \in {" ", "\t"}

NoMatch == [ok |-> FALSE, start |-> 0, alt |-> 0, ends |-> <<>>]

Min(S) == CHOOSE x \in S : \A y \in S : x <= y
Max(S) == CHOOSE x \in S : \A y \in S : x >= y

\* how many characters from pos on the item can take at most
RunLen(it, text, pos) ==
    IF pos > Len(text) \/ ~InClass(it, text[pos]) THEN 0
    ELSE IF ~it.many THEN 1
    ELSE (CHOOSE e \in (pos + 1)..(Len(text) + 1) :
             /\ (e > Len(text) \/ ~InClass(it, text[e]))
             /\ \A q \in pos..(e - 1) : InClass(it, text[q])) - pos

RECURSIVE MatchItems(_, _, _, _)
\* match items[k..] at pos: the end position of every item; an item takes
\* the longest repetition that lets the rest of the pattern match
MatchItems(items, k, text, pos) ==
    IF k > Len(items) THEN [ok |-> TRUE, ends |-> <<>>]
    ELSE LET tries == { [n |-> n, r |-> MatchItems(items, k + 1, text, pos + n)] :
                          n \in items[k].min..RunLen(items[k], text, pos) }
             good == { t \in tries : t.r.ok }
             best == CHOOSE t \in good : \A u \in good : t.n >= u.n
         IN  IF good = {} THEN [ok |-> FALSE, ends |-> <<>>]
             ELSE [ok |-> TRUE, ends |-> <<pos + best.n>> \o best.r.ends]

RECURSIVE MatchAlts(_, _, _, _)
\* the first alternative, in order, that matches at pos
MatchAlts(pattern, a, text, pos) ==
    IF a > Len(pattern) THEN NoMatch
    ELSE LET r == MatchItems(pattern[a], 1, text, pos)
         IN  IF r.ok THEN [ok |-> TRUE, start |-> pos, alt |-> a, ends |-> r.ends]
             ELSE MatchAlts(pattern, a + 1, text, pos)

\* re.search from position pos: the leftmost match
re_search(pattern, text, pos) ==
    LET starts == { p \in pos..(Len(text) + 1) : MatchAlts(pattern, 1, text, p).ok }
    IN  IF starts = {} THEN NoMatch
        ELSE MatchAlts(pattern, 1, text, Min(starts))

MatchEnd(m) == m.ends[Len(m.ends)]
\* the text of item k of a match
ItemText(text, m, k) ==
    SubSeq(text, IF k = 1 THEN m.start ELSE m.ends[k - 1], m.ends[k] - 1)

\* ---------------------------------------------------------------- patterns
TypeTail == <<S1, W1, S0, Lit("="), S0, NSC1, Lit(";")>>
Rule(type) == << <<S1>> \o type \o TypeTail >>

T_ember_value == Lits(<<"e", "m", "b", "e", "r", "_", "v", "a", "l", "u", "e">>)
T_const_char == Lits(<<"c", "o", "n", "s", "t">>) \o <<S1>> \o Lits(<<"c", "h", "a", "r", "*">>)
T_ember_ptr == Lits(<<"e", "m", "b", "e", "r", "_">>) \o <<W1>> \o Lits(<<"*">>)
T_uint32_t == Lits(<<"u", "i", "n", "t", "3", "2", "_", "t">>)
T_bool == Lits(<<"b", "o", "o", "l">>)
T_EmberPackage == Lits(<<"E", "m", "b", "e", "r", "P", "a", "c", "k", "a", "g", "e", "*">>)
T_int == Lits(<<"i", "n", "t">>)

\* the rules with bool and int in each other's place
patterns_swapped == << Rule(T_ember_value), Rule(T_const_char), Rule(T_ember_ptr),
                       Rule(T_uint32_t), Rule(T_int), Rule(T_EmberPackage),
                       Rule(T_bool) >>

patterns == << Rule(T_ember_value), Rule(T_const_char), Rule(T_ember_ptr),
               Rule(T_uint32_t), Rule(T_bool), Rule(T_EmberPackage),
               Rule(T_int) >>

NumRules == Len(patterns)

\* the name-extraction pattern without its last alternative
var_pattern_short == << T_ember_ptr \o <<S1, W1>>, T_const_char \o <<S1, W1>>,
                        T_uint32_t \o <<S1, W1>>, T_bool \o <<S1, W1>>,
                        T_EmberPackage \o <<S1, W1>>, T_int \o <<S1, W1>> >>

\* the name-extraction pattern: (?:...|...)\s+(\w+)
var_pattern == << T_ember_ptr \o <<S1, W1>>, T_const_char \o <<S1, W1>>,
                  T_uint32_t \o <<S1, W1>>, T_bool \o <<S1, W1>>,
                  T_EmberPackage \o <<S1, W1>>, T_int \o <<S1, W1>>,
                  T_ember_value \o <<S1, W1>> >>

\* group(1) and group(2) of a rule match
Group1(text, m) == ItemText(text, m, 1)
Group2(text, m) == SubSeq(text, m.ends[1], MatchEnd(m) - 1)
Group0(text, m) == SubSeq(text, m.start, MatchEnd(m) - 1)

\* the callback given to re.sub
replacement(text, m) ==
    LET indent == Group1(text, m)
        assignment == Group2(text, m)
        var_match == re_search(var_pattern, assignment, 1)
        var_name == ItemText(assignment, var_match, Len(var_match.ends))
    IN  IF var_match.ok
        THEN indent \o assignment \o <<"\n">> \o indent
             \o <<"U", "N", "U", "S", "E", "D", "(">> \o var_name \o <<")", ";">>
        ELSE Group0(text, m)

RECURSIVE SubFrom(_, _, _)
\* re.sub: scan left to right, copy the text between matches, replace each
\* match, go on after the end of the match
SubFrom(pattern, text, pos) ==
    LET m == re_search(pattern, text, pos)
    IN  IF ~m.ok THEN SubSeq(text, pos, Len(text))
        ELSE SubSeq(text, pos, m.start - 1) \o replacement(text, m)
             \o SubFrom(pattern, text, MatchEnd(m))

re_sub(pattern, text) == SubFrom(pattern, text, 1)

\* ------------------------------------------------------------ str methods
IsAt(sub, text, pos) ==
    /\ pos + Len(sub) - 1 <= Len(text)
    /\ \A i \in 1..Len(sub) : text[pos + i - 1] = sub[i]

\* sub in text
Contains(sub, text) == \E pos \in 1..Len(text) : IsAt(sub, text, pos)

Occurrences(sub, text) == { pos \in 1..Len(text) : IsAt(sub, text, pos) }

RECURSIVE ReplaceFrom(_, _, _, _)
\* text.replace(old, new): every non-overlapping occurrence, left to right
ReplaceFrom(text, old, new, pos) ==
    LET nxt == { p \in Occurrences(old, text) : p >= pos }
    IN  IF nxt = {} THEN SubSeq(text, pos, Len(text))
        ELSE SubSeq(text, pos, Min(nxt) - 1) \o new
             \o ReplaceFrom(text, old, new, Min(nxt) + Len(old))

str_replace(text, old, new) == ReplaceFrom(text, old, new, 1)

ANCHOR == <<"#", "i", "n", "c", "l", "u", "d", "e", " ", "\"", "t", "e", "s", "t", "_", "e", "m", "b", "e", "r", "_", "i", "n", "t", "e", "r", "n", "a", "l", ".", "h", "\"">>
MACRO_DEF == <<"#", "d", "e", "f", "i", "n", "e", " ", "U", "N", "U", "S", "E", "D", "(", "x", ")">>
MACRO_TEXT == <<"\n", "\n", "/", "/", " ", "M", "a", "c", "r", "o", " ", "t", "o", " ", "m", "a", "r", "k", " ", "v", "a", "r", "i", "a", "b", "l", "e", "s", " ", "a", "s", " ", "i", "n", "t", "e", "n", "t", "i", "o", "n", "a", "l", "l", "y", " ", "u", "n", "u", "s", "e", "d", "\n", "#", "d", "e", "f", "i", "n", "e", " ", "U", "N", "U", "S", "E", "D", "(", "x", ")", " ", "(", "(", "v", "o", "i", "d", ")", "(", "x", ")", ")">>

\* the marker step without its test for an existing definition
MacroMissing_always(text) == TRUE

MacroMissing(text) == ~Contains(MACRO_DEF, text)

\* a marker step that puts the macro on top of a file without the anchor
ensure_marker_top(text) ==
    IF ~Contains(MACRO_DEF, text)
    THEN IF Contains(ANCHOR, text)
         THEN str_replace(text, ANCHOR, ANCHOR \o MACRO_TEXT)
         ELSE Tail(MACRO_TEXT) \o <<"\n">> \o text
    ELSE text

\* lines 11-14
ensure_marker(text) ==
    IF MacroMissing(text)
    THEN str_replace(text, ANCHOR, ANCHOR \o MACRO_TEXT)
    ELSE text

\* ------------------------------------------------------------------ inputs
LinePalette == {
    <<>>,
    <<"i", "n", "t", " ", "n", " ", "=", " ", "5", ";">>,
    <<" ", "i", "n", "t", " ", "x", " ", "=", " ", "1", ",", " ", "b", "o", "o", "l", " ", "y", " ", "=", " ", "2", ";">>,
    <<"\t", "c", "o", "n", "s", "t", " ", "c", "h", "a", "r", "*", " ", "s", " ", "=", " ", "\"", "h", "\"", ";", " ", "u", "i", "n", "t", "3", "2", "_", "t", " ", "u", " ", "=", " ", ";">>,
    <<" ", "e", "m", "b", "e", "r", "_", "v", "a", "l", "u", "e", " ", "v", " ", "=", " ", "1", ";", " ", "e", "m", "b", "e", "r", "_", "t", "*", " ", "p", " ", "=", " ", "q", ";">>,
    <<" ", "E", "m", "b", "e", "r", "P", "a", "c", "k", "a", "g", "e", "*", " ", "k", " ", "=", " ", "0", ";", " ", "i", "n", "t", " ", "z", " ", "=", ";">>,
    ANCHOR,
    <<"#", "d", "e", "f", "i", "n", "e", " ", "U", "N", "U", "S", "E", "D", "(", "x", ")", " ", "(", "(", "v", "o", "i", "d", ")", "(", "x", ")", ")">> }

RECURSIVE Join(_)
Join(ls) ==
    IF Len(ls) = 0 THEN <<>>
    ELSE IF Len(ls) = 1 THEN ls[1]
    ELSE ls[1] \o <<"\n">> \o Join(Tail(ls))

Files == { Join(ls) : ls \in UNION { [1..n -> LinePalette] : n \in 0..MaxLines } }

FileName == "test.c"
ArgVectors == { <<"comprehensive_fix.py">>,
                <<"comprehensive_fix.py", FileName>>,
                <<"comprehensive_fix.py", FileName, FileName>> }

Usage == [msg |-> "Usage: python3 comprehensive_fix.py <filename>", arg |-> ""]
Fixed(f) == [msg |-> "Fixed unused variables in", arg |-> f]

\* ------------------------------------------------------------ state machine
\* fs: the one file the command can name: present or not, writable or not
Init ==
    /\ input0 \in Files
    /\ fs \in { [present |-> TRUE, writable |-> w, text |-> input0] : w \in BOOLEAN }
             \cup (IF input0 = <<>>
                   THEN {[present |-> FALSE, writable |-> TRUE, text |-> <<>>]}
                   ELSE {})
    /\ argv = <<>>
    /\ content = <<>>
    /\ pc = "idle"
    /\ idx = 0
    /\ stdout = <<>>
    /\ exitcode = -1
    /\ runs = 0
    /\ orig = <<>>
    /\ ropens = 0
    /\ wopens = 0
    /\ outs = <<>>

\* an argument test that lets extra arguments through
ArgCountWrong_lt(args) == Len(args) < 2
ArgCountWrong(args) == Len(args) # 2
\* a loop that stops one rule early
RulesDone_early(i) == i >= NumRules
RulesDone(i) == i > NumRules

\* the command is started, on the file as first given or as the last
\* completed run left it (a run that exits with status 1 leaves the file as
\* it found it)
Start ==
    /\ pc = "idle" \/ (pc = "exited" /\ exitcode = 0)
    /\ runs < MaxRuns
    /\ \E a \in ArgVectors : argv' = a
    /\ pc' = "main"
    /\ runs' = runs + 1
    /\ stdout' = <<>>
    /\ exitcode' = -1
    /\ orig' = fs.text
    /\ ropens' = 0
    /\ wopens' = 0
    /\ content' = <<>>
    /\ idx' = 0
    /\ UNCHANGED <<fs, outs, input0>>

\* lines 46-48
UsageError ==
    /\ pc = "main"
    /\ ArgCountWrong(argv)
    /\ stdout' = Append(stdout, Usage)
    /\ exitcode' = 1
    /\ pc' = "exited"
    /\ UNCHANGED <<argv, fs, content, idx, runs, orig, ropens, wopens, outs, input0>>

\* lines 8-9
ReadFile ==
    /\ pc = "main"
    /\ ~ArgCountWrong(argv)
    /\ IF fs.present
       THEN /\ content' = fs.text
            /\ ropens' = ropens + 1
            /\ pc' = "marker"
            /\ UNCHANGED exitcode
       ELSE /\ pc' = "exited"
            /\ exitcode' = 1
            /\ UNCHANGED <<content, ropens>>
    /\ UNCHANGED <<argv, fs, idx, stdout, runs, orig, wopens, outs, input0>>

\* lines 11-14
Marker ==
    /\ pc = "marker"
    /\ content' = ensure_marker(content)
    /\ pc' = "rules"
    /\ idx' = 1
    /\ UNCHANGED <<argv, fs, stdout, exitcode, runs, orig, ropens, wopens, outs, input0>>

\* lines 28-40, one iteration of the loop
ApplyRule ==
    /\ pc = "rules"
    /\ ~RulesDone(idx)
    /\ content' = re_sub(patterns[idx], content)
    /\ idx' = idx + 1
    /\ UNCHANGED <<argv, fs, pc, stdout, exitcode, runs, orig, ropens, wopens, outs, input0>>

\* line 42: open(filename, 'w') truncates the file
OpenWrite ==
    /\ pc = "rules"
    /\ RulesDone(idx)
    /\ IF fs.writable
       THEN /\ fs' = [fs EXCEPT !.text = <<>>]
            /\ wopens' = wopens + 1
            /\ pc' = "write"
            /\ UNCHANGED exitcode
       ELSE /\ pc' = "exited"
            /\ exitcode' = 1
            /\ UNCHANGED <<fs, wopens>>
    /\ UNCHANGED <<argv, content, idx, stdout, runs, orig, ropens, outs, input0>>

\* line 43
WriteFile ==
    /\ pc = "write"
    /\ fs' = [fs EXCEPT !.text = content]
    /\ outs' = Append(outs, content)
    /\ pc' = "print"
    /\ UNCHANGED <<argv, content, idx, stdout, exitcode, runs, orig, ropens, wopens, input0>>

\* lines 50-51
Confirm ==
    /\ pc = "print"
    /\ stdout' = Append(stdout, Fixed(argv[2]))
    /\ exitcode' = 0
    /\ pc' = "exited"
    /\ UNCHANGED <<argv, fs, content, idx, runs, orig, ropens, wopens, outs, input0>>

Next ==
    \/ Start
    \/ UsageError
    \/ ReadFile
    \/ Marker
    \/ ApplyRule
    \/ OpenWrite
    \/ WriteFile
    \/ Confirm

Spec == Init /\ [][Next]_vars

\* ================================================================ properties
Count(sub, text) == Cardinality(Occurrences(sub, text))

UNUSED_CALL(name) == <<"U", "N", "U", "S", "E", "D", "(">> \o name \o <<")", ";">>

\* the name a rule pattern itself matched before "="
RuleName(text, m) == ItemText(text, m, Len(m.ends) - 5)

\* every position where a rule pattern matches
MatchStarts(pattern, text) ==
    { p \in 1..Len(text) : MatchAlts(pattern, 1, text, p).ok }

Printed(msg) == \E k \in 1..Len(stdout) : stdout[k] = msg

\* ---- lines of a text
NewLines(text) == { p \in 1..Len(text) : text[p] = "\n" }
LineStarts(text) == {1} \cup { p + 1 : p \in NewLines(text) }
LineAt(text, s) ==
    SubSeq(text, s, Min({ p \in NewLines(text) : p >= s } \cup {Len(text) + 1}) - 1)
HasLineAt(text, s) == s \in LineStarts(text)

Blank == {" ", "\t"}
LeadingBlanks(line) ==
    IF \A q \in 1..Len(line) : line[q] \in Blank THEN Len(line)
    ELSE Min({ q \in 1..Len(line) : line[q] \notin Blank }) - 1

\* the rule, if any, whose declaration pattern matches the whole of rest
DeclRules(rest) ==
    { r \in 1..NumRules :
        LET m == MatchItems(Tail(patterns[r][1]), 1, rest, 1)
        IN  m.ok /\ m.ends[Len(m.ends)] = Len(rest) + 1 }
DeclNameOf(rest, r) ==
    LET m == MatchItems(Tail(patterns[r][1]), 1, rest, 1)
    IN  SubSeq(rest, m.ends[Len(m.ends) - 6], m.ends[Len(m.ends) - 5] - 1)

\* ---- texts obtained from another by inserting pieces
HS0 == [cls |-> "h", ch |-> "", min |-> 0, many |-> TRUE]
AnnotationPiece == <<Lit("\n"), S1>> \o Lits(<<"U", "N", "U", "S", "E", "D", "(">>) \o <<W1>> \o Lits(<<")", ";">>)
IndentedPiece == <<Lit("\n"), HS0>> \o Lits(<<"U", "N", "U", "S", "E", "D", "(">>) \o <<W1>> \o Lits(<<")", ";">>)

\* the end of the piece that starts at d, 0 when none starts there
PieceEnd(out, d, piece, macro) ==
    LET m == MatchItems(piece, 1, out, d)
    IN  IF d > 1 /\ out[d - 1] = ";" /\ m.ok THEN m.ends[Len(m.ends)]
        ELSE IF /\ macro
                /\ d > Len(ANCHOR)
                /\ IsAt(ANCHOR, out, d - Len(ANCHOR))
                /\ IsAt(MACRO_TEXT, out, d)
             THEN d + Len(MACRO_TEXT)
             ELSE 0

RECURSIVE Embed(_, _, _, _, _)
\* out[j..] is in[i..] with pieces inserted at some of the positions D
Embed(in, out, i, j, D) ==
    LET nx == { d \in DOMAIN D : d >= j /\ D[d] > 0 }
    IN  IF nx = {} THEN SubSeq(in, i, Len(in)) = SubSeq(out, j, Len(out))
        ELSE LET d == Min(nx)
                 i2 == i + (d - j)
             IN  /\ i2 - 1 <= Len(in)
                 /\ SubSeq(in, i, i2 - 1) = SubSeq(out, j, d - 1)
                 /\ \/ Embed(in, out, i2, D[d], D)
                    \/ /\ i2 <= Len(in)
                       /\ in[i2] = out[d]
                       /\ Embed(in, out, i2 + 1, d + 1, D)

InsertedOnly(in, out, piece, macro) ==
    Embed(in, out, 1, 1, [d \in 1..Len(out) |-> PieceEnd(out, d, piece, macro)])

\* ---- the non-overlapping matches of a text, left to right
RECURSIVE NonOverlapping(_, _, _, _)
NonOverlapping(pattern, text, starts, pos) ==
    LET nx == { p \in starts : p >= pos }
    IN  IF nx = {} THEN <<>>
        ELSE LET m == MatchAlts(pattern, 1, text, Min(nx))
             IN  <<m>> \o NonOverlapping(pattern, text, starts, MatchEnd(m))

RECURSIVE InsertAfter(_, _, _)
\* text with an annotation inserted after every match of ms, last one first
InsertAfter(text, ms, k) ==
    IF k = 0 THEN text
    ELSE LET m == ms[k]
             e == MatchEnd(m)
         IN  InsertAfter(SubSeq(text, 1, e - 1) \o <<"\n">> \o Group1(text, m)
                           \o UNUSED_CALL(RuleName(text, m))
                           \o SubSeq(text, e, Len(text)),
                         ms, k - 1)

DeclaredOrder == << <<"e", "m", "b", "e", "r", "_", "v", "a", "l", "u", "e">>, <<"c", "o", "n", "s", "t">>, <<"e", "m", "b", "e", "r", "_">>, <<"u", "i", "n", "t", "3", "2", "_", "t">>,
                    <<"b", "o", "o", "l">>, <<"E", "m", "b", "e", "r", "P", "a", "c", "k", "a", "g", "e", "*">>, <<"i", "n", "t">> >>

\* C1: a second run on the output of a run inserts nothing: the text
\* written by a run equals the text written by the run before it.
C1_SecondRunAddsNothing ==
    \A i \in 1..(Len(outs) - 1) : outs[i + 1] = outs[i]

\* C2: every input line made of blanks W and a declaration matching one of
\* the seven patterns is, after one run, in the output unchanged and directly
\* followed by the line W UNUSED(name);
C2_AnnotationOnNextLine ==
    (pc = "print" /\ runs = 1) =>
        \A s \in LineStarts(orig) :
            LET line == LineAt(orig, s)
                w == LeadingBlanks(line)
                rest == SubSeq(line, w + 1, Len(line))
            IN  (w >= 1 /\ DeclRules(rest) # {}) =>
                  \E t \in LineStarts(fs.text) :
                      /\ LineAt(fs.text, t) = line
                      /\ HasLineAt(fs.text, t + Len(line) + 1)
                      /\ \E r \in DeclRules(rest) :
                            LineAt(fs.text, t + Len(line) + 1)
                              = SubSeq(line, 1, w) \o UNUSED_CALL(DeclNameOf(rest, r))

\* C3: when the text lacks the macro definition and has the anchor line one
\* or more times, the marker step inserts the macro block once, directly
\* after the first anchor and after no other.
C3_MacroAfterFirstAnchorOnly ==
    (pc = "rules" /\ idx = 1 /\ Occurrences(MACRO_DEF, orig) = {}
       /\ Occurrences(ANCHOR, orig) # {}) =>
        LET e == Min(Occurrences(ANCHOR, orig)) + Len(ANCHOR)
        IN  /\ content = SubSeq(orig, 1, e - 1) \o MACRO_TEXT
                           \o SubSeq(orig, e, Len(orig))
            /\ Count(MACRO_DEF, content) = 1

\* C4: a file that already has the macro definition keeps the same number
\* of definitions over any number of runs, with or without the anchor line.
C4_MacroNeverDuplicated ==
    Occurrences(MACRO_DEF, input0) # {} =>
        /\ \A i \in 1..Len(outs) : Count(MACRO_DEF, outs[i]) = Count(MACRO_DEF, input0)
        /\ pc # "write" => Count(MACRO_DEF, fs.text) = Count(MACRO_DEF, input0)
        /\ pc \in {"marker", "rules", "write", "print"} =>
              Count(MACRO_DEF, content) = Count(MACRO_DEF, input0)

C4_Witness ==
    /\ Len(outs) = 2
    /\ Occurrences(MACRO_DEF, input0) # {}
    /\ Occurrences(ANCHOR, input0) # {}
    /\ Count(MACRO_DEF, outs[2]) = 1

\* C5: without the anchor line a run adds no macro definition and fails on
\* nothing: the output is the input with annotations inserted and nothing
\* else, and is the input itself when no rule matches.
C5_NoAnchorNoMacro ==
    Occurrences(ANCHOR, orig) = {} =>
        /\ (pc = "rules" /\ idx = 1) => content = orig
        /\ (pc = "exited" /\ ~ArgCountWrong(argv) /\ fs.present /\ fs.writable)
              => exitcode = 0
        /\ pc = "print" =>
              /\ Count(MACRO_DEF, fs.text) = Count(MACRO_DEF, orig)
              /\ InsertedOnly(orig, fs.text, AnnotationPiece, FALSE)
              /\ (\A r \in 1..NumRules : MatchStarts(patterns[r], orig) = {})
                    => fs.text = orig

C5_Witness ==
    /\ pc = "print"
    /\ Occurrences(ANCHOR, orig) = {}
    /\ fs.text # orig
    /\ Len(orig) > 0

\* C6: with any number of positional arguments other than one the command
\* prints the usage message and exits with status 1, without opening,
\* reading or writing the file and without the confirmation message.
C6_UsageError ==
    (pc = "exited" /\ Len(argv) # 2) =>
        /\ stdout = <<Usage>>
        /\ exitcode = 1
        /\ ropens = 0
        /\ wopens = 0
        /\ fs.text = orig

C6_Witness ==
    /\ pc = "exited"
    /\ Len(argv) = 3
    /\ stdout = <<Usage>>
    /\ fs.present

\* C7: the file is opened for writing at most once, after the read, the
\* marker step and all seven rules; until then, and when the run fails, the
\* file is as it was; the confirmation is printed after the write only.
C7_WriteLast ==
    /\ wopens <= 1
    /\ wopens = 1 => (ropens = 1 /\ pc \in {"write", "print", "exited"}
                        /\ idx = Len(DeclaredOrder) + 1)
    /\ wopens = 0 => (pc = "idle" \/ fs.text = orig)
    /\ (pc # "idle" /\ Printed(Fixed(FileName))) =>
          (wopens = 1 /\ pc = "exited" /\ fs.text = content)

C7_Witness ==
    /\ pc = "exited"
    /\ Printed(Fixed(FileName))
    /\ fs.text # orig

\* C8: the rules run in the declared order, each in one pass over the text
\* the previous rule left: a rule step inserts one annotation after every
\* non-overlapping match of the text as it was before the step, and nothing
\* the step inserts is matched by the same step.
C8_RuleSequencing ==
    [][ /\ (pc = "marker" /\ pc' = "rules") => idx' = 1
        /\ (pc = "rules" /\ pc' # "rules") => idx = Len(DeclaredOrder) + 1
        /\ (pc = "rules" /\ pc' = "rules") =>
              LET ms == NonOverlapping(patterns[idx], content,
                                       MatchStarts(patterns[idx], content), 1)
              IN  /\ idx' = idx + 1
                  /\ idx <= Len(DeclaredOrder)
                  /\ \A k \in 1..Len(ms) :
                        IsAt(DeclaredOrder[idx], content, ms[k].ends[1])
                  /\ content' = InsertAfter(content, ms, Len(ms)) ]_vars

C8_Witness ==
    /\ pc = "rules"
    /\ idx = NumRules + 1
    /\ Contains(<<";", "\n", " ", "U", "N", "U", "S", "E", "D", "(", "x", ")", ";", "\n", " ", "U", "N", "U", "S", "E", "D", "(", "y", ")", ";">>, content)

\* C9: on every match of the pattern of each of the seven rules, in the text
\* the rule runs on, the name-extraction pattern succeeds at the start of the
\* declaration and captures the name the rule pattern matched before "=";
\* the match gets its annotation.
C9_NameExtraction ==
    (pc = "rules" /\ idx <= NumRules) =>
        \A p \in MatchStarts(patterns[idx], content) :
            LET m == MatchAlts(patterns[idx], 1, content, p)
                a == Group2(content, m)
                vm == re_search(var_pattern, a, 1)
            IN  /\ vm.ok
                /\ vm.start = 1
                /\ ItemText(a, vm, Len(vm.ends)) = RuleName(content, m)
                /\ replacement(content, m)
                     = Group0(content, m) \o <<"\n">> \o Group1(content, m)
                         \o UNUSED_CALL(RuleName(content, m))

C9_Witness ==
    /\ pc = "rules"
    /\ idx <= NumRules
    /\ MatchStarts(patterns[idx], content) # {}
    /\ re_sub(patterns[idx], content) # content

\* C10: after any number of runs the output is the input with pieces
\* inserted, each piece either the macro block directly after an anchor line
\* or a newline, the indentation and UNUSED(name); directly after a ";".
C10_InsertionOnly ==
    \A i \in 1..Len(outs) : InsertedOnly(input0, outs[i], IndentedPiece, TRUE)


====
